---- MODULE Spec2Model ----
(***************************************************************************)
(* Model of src/src/helpers.py: read_csv_robust (encoding detection and    *)
(* the fallback chain of pd.read_csv attempts), bootstrap_mean and         *)
(* pretty_print_desc_stats (descriptive statistics and bootstrap           *)
(* confidence intervals), and the module-level seeding of the global       *)
(* random generators.                                                      *)
(*                                                                         *)
(* Numbers: sample values are integers; every derived statistic is kept in *)
(* fixed point, as an integer count of 1/Scale units (floor division       *)
(* towards minus infinity where the code divides).  NaN is a sentinel.     *)
(***************************************************************************)
EXTENDS Integers, Sequences, FiniteSets, TLC

VARIABLES
    pc,                 \* position inside read_csv_robust
    file,               \* the file at file_path: [exists, rows]
    encoding_detected,  \* helpers.py:66
    attempts,           \* the pd.read_csv calls made so far: [encoding, ok, error]
    printed,            \* the messages print() has emitted, each a tuple of parts
    loaded,             \* how read_csv_robust ended: [kind, df, error]
    np_global,          \* state of numpy's global generator (seeded at import)
    py_global,          \* state of random's global generator (seeded at import)
    out,                \* outcome of the last statistics call
    est,                \* the last bootstrap_mean call: [set, args, result]
    est2,               \* a later bootstrap_mean call with est.args: [set, result]
    ndraws              \* draws made from the global generators so far

vars == <<pc, file, encoding_detected, attempts, printed, loaded,
          np_global, py_global, out, est, est2, ndraws>>

loadVars == <<pc, file, encoding_detected, attempts, printed, loaded>>
statVars == <<np_global, py_global, out, est, est2, ndraws>>

None == "None"

(***************************************************************************)
(* Generic helpers                                                         *)
(***************************************************************************)
Range(s) == {s[i] : i \in DOMAIN s}

Max(a, b) == IF a >= b THEN a ELSE b

RECURSIVE SumSeq(_)
SumSeq(s) == IF s = <<>> THEN 0 ELSE Head(s) + SumSeq(Tail(s))

(***************************************************************************)
(* Bounds                                                                  *)
(***************************************************************************)
MaxRows == 3        \* lines in a file, header included
MaxFields == 3      \* fields in a line

(***************************************************************************)
(* Files.  A file is a sequence of lines, a line a sequence of fields, a   *)
(* field a sequence of bytes.  Delimiters and line ends are ASCII in every *)
(* encoding considered, so only the field bytes are kept.                  *)
(***************************************************************************)
\* "a";  e-acute in UTF-8 (C3 A9);  e-acute in ISO-8859-1 (E9)
FieldBytes == { <<97>>, <<195, 169>>, <<233>> }

\* a line of n fields: the first field is any of FieldBytes, the others "a"
Lines == { [i \in 1..n |-> IF i = 1 THEN t ELSE <<97>>] :
              t \in FieldBytes, n \in 1..MaxFields }

Files == { [exists |-> FALSE, rows |-> <<>>] } \cup
         { [exists |-> TRUE, rows |-> r] :
              r \in UNION { [1..k -> Lines] : k \in 0..MaxRows } }

file_path == "data.csv"

\* what chardet.detect(rawdata)['encoding'] can be for the first num_bytes
\* bytes: a heuristic guess, right or wrong, None when it has no answer, or a
\* name Python has no codec for (EUC-TW)
Guesses == { None, "ascii", "utf-8", "ISO-8859-1", "EUC-TW" }

(***************************************************************************)
(* Codecs                                                                  *)
(***************************************************************************)
\* pd.read_csv(encoding=None) opens the file as utf-8
CodecOf(encoding) ==
    CASE encoding = None -> "utf-8"
      [] encoding \in {"utf-8", "ascii", "ISO-8859-1"} -> encoding
      [] OTHER -> "unknown"

IsCont(b) == b >= 128 /\ b <= 191

RECURSIVE Utf8Decode(_)
\* the code points of a UTF-8 byte sequence, or <<-1>> when it is invalid
Utf8Decode(bs) ==
    IF bs = <<>> THEN <<>>
    ELSE LET b == Head(bs) IN
         IF b < 128 THEN
            LET rest == Utf8Decode(Tail(bs)) IN
            IF rest = <<-1>> THEN <<-1>> ELSE <<b>> \o rest
         ELSE IF b >= 194 /\ b <= 223 /\ Len(bs) >= 2 /\ IsCont(bs[2]) THEN
            LET rest == Utf8Decode(SubSeq(bs, 3, Len(bs))) IN
            IF rest = <<-1>> THEN <<-1>>
            ELSE <<(b - 192) * 64 + (bs[2] - 128)>> \o rest
         ELSE IF b >= 224 /\ b <= 239 /\ Len(bs) >= 3
                 /\ IsCont(bs[2]) /\ IsCont(bs[3]) THEN
            LET rest == Utf8Decode(SubSeq(bs, 4, Len(bs))) IN
            IF rest = <<-1>> THEN <<-1>>
            ELSE <<(b - 224) * 4096 + (bs[2] - 128) * 64 + (bs[3] - 128)>>
                 \o rest
         ELSE <<-1>>

\* the text of a field under a codec, or <<-1>> for a UnicodeDecodeError
Decode(codec, bs) ==
    CASE codec = "utf-8" -> Utf8Decode(bs)
      [] codec = "ascii" ->
            IF \A i \in DOMAIN bs : bs[i] < 128 THEN bs ELSE <<-1>>
      [] codec = "ISO-8859-1" -> bs      \* byte b is code point b
      [] OTHER -> <<-1>>

Decodable(codec, rows) ==
    \A i \in DOMAIN rows : \A j \in DOMAIN rows[i] :
        Decode(codec, rows[i][j]) # <<-1>>

(***************************************************************************)
(* pd.read_csv(file_path, encoding=..., on_bad_lines='skip', sep=sep)      *)
(***************************************************************************)
NaN_field == <<>>      \* a field the parser filled in

PadTo(line, n) ==
    [i \in 1..Max(n, Len(line)) |-> IF i <= Len(line) THEN line[i] ELSE NaN_field]

RECURSIVE Tokenize(_, _, _)
\* The data lines the C tokenizer keeps.  ex is the number of fields of the
\* previous kept line; a line with more fields than ex is a bad line and is
\* skipped, except the first line after the header, which is never checked;
\* a line with fewer fields is kept and padded.
Tokenize(lines, ex, firstData) ==
    IF lines = <<>> THEN <<>>
    ELSE LET l == Head(lines) IN
         IF ~firstData /\ Len(l) > ex
         THEN Tokenize(Tail(lines), ex, FALSE)
         ELSE LET kept == PadTo(l, ex) IN
              <<kept>> \o Tokenize(Tail(lines), Len(kept), FALSE)

DecodeLine(codec, line) == [j \in DOMAIN line |-> Decode(codec, line[j])]

NoDf == [columns |-> <<>>, rows |-> <<>>]
NoError == [type |-> None, msg |-> <<>>, context |-> <<>>]

Err(type, msg) == [type |-> type, msg |-> msg, context |-> <<>>]

read_csv(f, encoding) ==
    LET codec == CodecOf(encoding) IN
    IF ~f.exists THEN
        [ok |-> FALSE, df |-> NoDf,
         error |-> Err("FileNotFoundError",
                       <<"No such file or directory: ", file_path>>)]
    ELSE IF codec = "unknown" THEN
        [ok |-> FALSE, df |-> NoDf,
         error |-> Err("LookupError", <<"unknown encoding: ", encoding>>)]
    ELSE IF f.rows = <<>> THEN
        [ok |-> FALSE, df |-> NoDf,
         error |-> Err("EmptyDataError", <<"No columns to parse from file">>)]
    ELSE IF ~Decodable(codec, f.rows) THEN
        [ok |-> FALSE, df |-> NoDf,
         error |-> Err("UnicodeDecodeError",
                       <<"'", codec, "' codec can't decode byte">>)]
    ELSE
        LET text == [i \in DOMAIN f.rows |-> DecodeLine(codec, f.rows[i])] IN
        [ok |-> TRUE,
         df |-> [columns |-> Head(text),
                 rows |-> Tokenize(Tail(text), Len(Head(text)), TRUE)],
         error |-> NoError]

(***************************************************************************)
(* read_csv_robust                                                         *)
(***************************************************************************)
\* the two fallbacks the other way round
FirstFallback_Swapped == "ISO-8859-1"
FirstFallback == "utf-8"

\* a last fallback that cannot decode every byte
SecondFallback_Ascii == "ascii"
SecondFallback == "ISO-8859-1"

AllFailedMsg ==
    <<"All attempts failed. Please check the file for issues beyond encoding.">>

\* the exceptions being handled when a new one is raised: its __context__ chain
Handling == [i \in DOMAIN attempts |-> attempts[i].error]

NotLoaded == [kind |-> "none", df |-> NoDf, error |-> NoError]
NoFile == [exists |-> FALSE, rows |-> <<>>]

\* detect_encoding: open() is outside every try block
detect_encoding ==
    /\ pc = "detect"
    /\ IF ~file.exists
       THEN /\ pc' = "raised"
            /\ loaded' = [kind |-> "raised", df |-> NoDf,
                          error |-> Err("FileNotFoundError",
                                        <<"No such file or directory: ",
                                          file_path>>)]
            /\ UNCHANGED encoding_detected
       ELSE /\ \E g \in Guesses : encoding_detected' = g
            /\ pc' = "try_detected"
            /\ UNCHANGED loaded
    /\ UNCHANGED <<file, attempts, printed>>
    /\ UNCHANGED statVars

Attempt(encoding, r) ==
    [encoding |-> encoding, ok |-> r.ok,
     error |-> [r.error EXCEPT !.context = Handling]]

TryDetected ==
    /\ pc = "try_detected"
    /\ LET r == read_csv(file, encoding_detected) IN
       /\ attempts' = Append(attempts, Attempt(encoding_detected, r))
       /\ IF r.ok
          THEN /\ printed' = Append(printed,
                     <<"File read successfully with encoding: ",
                       encoding_detected>>)
               /\ loaded' = [kind |-> "returned", df |-> r.df, error |-> NoError]
               /\ pc' = "returned"
          ELSE /\ printed' = Append(printed,
                     <<"Failed to read with detected encoding ",
                       encoding_detected, ". Error: ">> \o r.error.msg)
               /\ UNCHANGED loaded
               /\ pc' = "try_utf8"
    /\ UNCHANGED <<file, encoding_detected>>
    /\ UNCHANGED statVars

TryUtf8 ==
    /\ pc = "try_utf8"
    /\ LET r == read_csv(file, FirstFallback) IN
       /\ attempts' = Append(attempts, Attempt(FirstFallback, r))
       /\ IF r.ok
          THEN /\ printed' = printed \o
                     << <<"Attempting to read with UTF-8...">>,
                        <<"File read successfully with UTF-8.">> >>
               /\ loaded' = [kind |-> "returned", df |-> r.df, error |-> NoError]
               /\ pc' = "returned"
          ELSE /\ printed' = printed \o
                     << <<"Attempting to read with UTF-8...">>,
                        <<"Failed to read with UTF-8. Error: ">> \o r.error.msg >>
               /\ UNCHANGED loaded
               /\ pc' = "try_iso"
    /\ UNCHANGED <<file, encoding_detected>>
    /\ UNCHANGED statVars

TryIso ==
    /\ pc = "try_iso"
    /\ LET r == read_csv(file, SecondFallback) IN
       /\ attempts' = Append(attempts, Attempt(SecondFallback, r))
       /\ IF r.ok
          THEN /\ printed' = printed \o
                     << <<"Attempting to read with ISO-8859-1...">>,
                        <<"File read successfully with ISO-8859-1.">> >>
               /\ loaded' = [kind |-> "returned", df |-> r.df, error |-> NoError]
               /\ pc' = "returned"
          ELSE /\ printed' = printed \o
                     << <<"Attempting to read with ISO-8859-1...">>,
                        <<"Failed to read with ISO-8859-1. Error: ">>
                            \o r.error.msg >>
               /\ loaded' = [kind |-> "raised", df |-> NoDf,
                             error |-> [type |-> "ValueError",
                                        msg |-> AllFailedMsg,
                                        context |-> Handling'] ]
               /\ pc' = "raised"
    /\ UNCHANGED <<file, encoding_detected>>
    /\ UNCHANGED statVars

NextLoad == detect_encoding \/ TryDetected \/ TryUtf8 \/ TryIso

(***************************************************************************)
(* Fixed-point arithmetic                                                  *)
(***************************************************************************)
Scale == 1000                \* statistics are integers in units of 1/Scale
NaN == -999999999            \* float('nan')

\* floor(a / b) for b > 0
Div(a, b) == IF a >= 0 THEN a \div b ELSE -((-a + b - 1) \div b)

\* a / b rounded to the nearest integer, for any b # 0
Quot(a, b) ==
    LET n == IF b < 0 THEN -a ELSE a
        d == IF b < 0 THEN -b ELSE b
    IN  Div(2 * n + d, 2 * d)

RECURSIVE IsqrtIn(_, _, _)
\* the largest r in lo..hi with r * r <= v, given lo * lo <= v
IsqrtIn(v, lo, hi) ==
    IF lo >= hi THEN lo
    ELSE LET mid == (lo + hi + 1) \div 2 IN
         IF mid * mid <= v THEN IsqrtIn(v, mid, hi) ELSE IsqrtIn(v, lo, mid - 1)

Isqrt(v) == IsqrtIn(v, 0, IF v > 40000 THEN 40000 ELSE v)

Sorted(s) == SortSeq(s, LAMBDA a, b : a < b)

(***************************************************************************)
(* numpy statistics of a 1-D array of integers-as-floats                   *)
(***************************************************************************)
\* sum of squared deviations from the mean, times n^2
SumSqDev(x) ==
    LET n == Len(x)
        t == SumSeq(x)
    IN  SumSeq([i \in 1..n |-> (n * x[i] - t) * (n * x[i] - t)])

\* sum of cubed deviations from the mean, times n^3
SumCubeDev(x) ==
    LET n == Len(x)
        t == SumSeq(x)
    IN  SumSeq([i \in 1..n |-> (n * x[i] - t) * (n * x[i] - t) * (n * x[i] - t)])

\* np.mean: nan (with a warning) for an empty array
np_mean(x) == IF Len(x) = 0 THEN NaN ELSE Div(SumSeq(x) * Scale, Len(x))

\* np.median: nan for an empty array
np_median(x) ==
    LET n == Len(x)
        s == Sorted(x)
    IN  IF n = 0 THEN NaN
        ELSE IF n % 2 = 1 THEN s[(n + 1) \div 2] * Scale
        ELSE Div((s[n \div 2] + s[n \div 2 + 1]) * Scale, 2)

\* np.std(x, ddof=1): nan (with a warning) when n - 1 <= 0, never an error
np_std_ddof1(x) ==
    LET n == Len(x) IN
    IF n <= 1 THEN NaN
    ELSE Isqrt(Div(SumSqDev(x) * Scale * Scale, n * n * (n - 1)))

\* np.percentile(v, q), q in permille, linear interpolation
np_percentile(v, q) ==
    LET s == Sorted(v)
        N == Len(s)
        pos == q * (N - 1)
        i == pos \div 1000
        frac == pos % 1000
    IN  IF q = NaN THEN NaN
        ELSE IF i + 2 <= N
             THEN s[i + 1] + Div((s[i + 2] - s[i + 1]) * frac, 1000)
             ELSE s[N]

(***************************************************************************)
(* Random generators: a linear congruential generator stands for the       *)
(* Mersenne twister behind random, np.random and np.random.RandomState     *)
(***************************************************************************)
LcgA == 5
LcgC == 3
LcgM == 16
ImportSeed == 42

SeedState(seed) == seed % LcgM
LcgNext(state) == (LcgA * state + LcgC) % LcgM

\* random_state not passed on: the global generator is used
check_random_state_shared(seed, np_state) == [id |-> "global", state |-> np_state]

\* scipy's check_random_state(seed), called where np.random's global generator
\* is in state np_state: for an int seed it builds a fresh RandomState(seed)
\* and leaves the global generator alone (only seed=None would return it)
check_random_state(seed, np_state) == [id |-> "local", state |-> SeedState(seed)]

RECURSIVE Draws(_, _)
\* the states after 1..k draws
Draws(state, k) ==
    IF k = 0 THEN <<>>
    ELSE LET nx == LcgNext(state) IN <<nx>> \o Draws(nx, k - 1)

\* rng.integers(0, n, (n_resamples, n)) and the statistic of each resample;
\* returns the bootstrap distribution and the state the generator is left in
Resample(x, n_resamples, state0) ==
    LET n == Len(x)
        d == Draws(state0, n_resamples * n)
        one(b) == [j \in 1..n |-> x[(d[(b - 1) * n + j] % n) + 1]]
    IN  [theta_hat_b |-> [b \in 1..n_resamples |-> np_mean(one(b))],
         state |-> IF d = <<>> THEN state0 ELSE d[Len(d)]]

(***************************************************************************)
(* The normal distribution, tabulated in permille at every 0.1; z is an    *)
(* integer count of 1/100                                                  *)
(***************************************************************************)
NdtrTable ==
    <<500, 540, 579, 618, 655, 691, 726, 758, 788, 816, 841, 864, 885, 903,
      919, 933, 945, 955, 964, 971, 977, 982, 986, 989, 992, 994, 995, 997,
      997, 998, 999>>

NdtrPos(z) ==
    IF z >= 300 THEN 999
    ELSE LET i == z \div 10
             f == z % 10
         IN  NdtrTable[i + 1] + Div((NdtrTable[i + 2] - NdtrTable[i + 1]) * f, 10)

ndtr(z) == IF z >= 0 THEN NdtrPos(z) ELSE 1000 - NdtrPos(-z)

RECURSIVE NdtriIn(_, _, _)
\* the least z in lo..hi with ndtr(z) >= p, given ndtr(hi) >= p
NdtriIn(p, lo, hi) ==
    IF lo >= hi THEN hi
    ELSE LET mid == Div(lo + hi, 2) IN
         IF ndtr(mid) >= p THEN NdtriIn(p, lo, mid) ELSE NdtriIn(p, mid + 1, hi)

\* finite for 0 < p < 1000; ndtri(0) and ndtri(1) are infinite
ndtri(p) == NdtriIn(p, -300, 300)

(***************************************************************************)
(* scipy.stats.bootstrap((data,), np.mean, n_resamples, random_state,      *)
(* confidence_level, method)                                               *)
(***************************************************************************)
\* a_hat of the jackknife, in 1/1000; the caller excludes SumSqDev(x) = 0
a_hat(x) ==
    LET S == SumSqDev(x) IN
    Quot(1000 * 100 * SumCubeDev(x), 6 * S * Isqrt(10000 * S))

\* one adjusted level: ndtr(z0 + num / (1 - a * num)), num = z0 + z
BcaLevel(z0, z, a) ==
    LET num == z0 + z
        den == 1000 - Quot(a * num, 100)
    IN  IF den = 0
        THEN IF num > 0 THEN 1000 ELSE IF num < 0 THEN 0 ELSE NaN
        ELSE ndtr(z0 + Quot(num * 1000, den))

\* _bca_interval: the two percentile levels after bias correction and
\* acceleration; nan when the jackknife is degenerate (0/0) or when the
\* bias correction is infinite (inf/inf or 0*inf)
bca_interval(x, alpha, theta_hat_b) ==
    LET theta_hat == np_mean(x)
        N == Len(theta_hat_b)
        lt == Cardinality({b \in 1..N : theta_hat_b[b] < theta_hat})
        le == Cardinality({b \in 1..N : theta_hat_b[b] <= theta_hat})
        percentile == Div(1000 * (lt + le), 2 * N)
    IN  IF SumSqDev(x) = 0 \/ percentile = 0 \/ percentile = 1000
        THEN <<NaN, NaN>>
        ELSE LET z0_hat == ndtri(percentile)
                 z_alpha == ndtri(alpha)
             IN  <<BcaLevel(z0_hat, z_alpha, a_hat(x)),
                   BcaLevel(z0_hat, -z_alpha, a_hat(x))>>

percentile_interval(x, alpha, theta_hat_b) == <<alpha, 1000 - alpha>>

NoRng == [id |-> "none", state |-> 0]

\* confidence_level in permille; np_state is the state of np.random's global
\* generator at the call.  Returns [ok, error, low, high, rng].
bootstrap(x, n_resamples, seed, confidence_level, method, np_state) ==
    IF Len(x) <= 1 THEN
        [ok |-> FALSE,
         error |-> Err("ValueError",
             <<"each sample in data must contain two or more observations along axis.">>),
         low |-> NaN, high |-> NaN, rng |-> NoRng]
    ELSE
        LET rng == check_random_state(seed, np_state)
            r == Resample(x, n_resamples, rng.state)
            alpha == (1000 - confidence_level) \div 2
            interval == IF method = "BCa"
                        THEN bca_interval(x, alpha, r.theta_hat_b)
                        ELSE percentile_interval(x, alpha, r.theta_hat_b)
        IN  [ok |-> TRUE, error |-> NoError,
             low |-> np_percentile(r.theta_hat_b, interval[1]),
             high |-> np_percentile(r.theta_hat_b, interval[2]),
             rng |-> [id |-> rng.id, state |-> r.state]]

(***************************************************************************)
(* bootstrap_mean                                                          *)
(***************************************************************************)
RECURSIVE Flatten(_)
Flatten(rows) == IF rows = <<>> THEN <<>> ELSE Head(rows) \o Flatten(Tail(rows))

\* data.ravel()
ravel(data) == IF data.ndim = 2 THEN Flatten(data.values) ELSE data.values

\* data.size
size(data) == Len(ravel(data))

NoEstimate == [mean |-> NaN, lower |-> NaN, upper |-> NaN]

Raised(error, computed, value) ==
    [kind |-> "raised", error |-> error, computed |-> computed,
     value |-> value, rng |-> NoRng]

\* default method of scipy.stats.bootstrap, used when none is passed
DefaultMethod == "BCa"
EstimatorMethod == "percentile"
SummarizerMethod == DefaultMethod

bootstrap_mean(data, n_bootstrap, ci, seed, np_state) ==
    IF data.type \notin {"Series", "list", "ndarray"} THEN
        Raised(Err("ValueError",
                   <<"Input data must be a Pandas Series, list, or numpy array">>),
               <<>>, NoEstimate)
    ELSE IF size(data) = 0 THEN
        Raised(Err("ValueError", <<"Input data is empty">>), <<>>, NoEstimate)
    ELSE IF data.dtype # "float" THEN
        \* np.mean of an array of strings
        Raised(Err("TypeError", <<"cannot perform reduce with flexible type">>),
               <<"np.mean">>, NoEstimate)
    ELSE
        LET x == ravel(data)
            data_mean == np_mean(x)
            result == bootstrap(x, n_bootstrap, seed, ci * 10, EstimatorMethod,
                                np_state)
        IN  IF ~result.ok
            THEN Raised(result.error, <<"np.mean", "bootstrap">>, NoEstimate)
            ELSE [kind |-> "returned", error |-> NoError,
                  computed |-> <<"np.mean", "bootstrap">>,
                  value |-> [mean |-> data_mean, lower |-> result.low,
                             upper |-> result.high],
                  rng |-> result.rng]

(***************************************************************************)
(* pretty_print_desc_stats                                                 *)
(***************************************************************************)
RECURSIVE Pow10(_)
Pow10(d) == IF d = 0 THEN 1 ELSE 10 * Pow10(d - 1)

\* f"{v:.{n_digits}f}": <<n_digits, count of 10^-n_digits>>, half to even;
\* "nan" for nan
Fmt(v, n_digits) ==
    IF v = NaN THEN <<0, NaN>>
    ELSE LET unit == Scale \div Pow10(n_digits)
             q == Div(v, unit)
             r == v - q * unit
         IN  <<n_digits,
               IF 2 * r > unit THEN q + 1
               ELSE IF 2 * r = unit THEN q + (q % 2)
               ELSE q>>

NoSummary == [M |-> <<0, NaN>>, Mdn |-> <<0, NaN>>, SD |-> <<0, NaN>>,
              ci_str |-> <<>>]

\* data is a list of numbers; ci_level in permille
pretty_print_desc_stats(data, n_bootstrap, ci, ci_level, n_digits, seed, np_state) ==
    LET mean == np_mean(data)
        median == np_median(data)
        sd == np_std_ddof1(data)
        stats == <<"np.mean", "np.median", "np.std">>
        latex(ci_str, rng, computed) ==
            [kind |-> "returned", error |-> NoError, computed |-> computed,
             value |-> [M |-> Fmt(mean, n_digits), Mdn |-> Fmt(median, n_digits),
                        SD |-> Fmt(sd, n_digits), ci_str |-> ci_str],
             rng |-> rng]
    IN  IF ci
        THEN LET bootstrap_results ==
                     bootstrap(data, n_bootstrap, seed, ci_level,
                               SummarizerMethod, np_state)
             IN  IF ~bootstrap_results.ok
                 THEN Raised(bootstrap_results.error,
                             Append(stats, "bootstrap"), NoSummary)
                 ELSE latex(<<ci_level \div 10,
                              Fmt(bootstrap_results.low, n_digits),
                              Fmt(bootstrap_results.high, n_digits)>>,
                            bootstrap_results.rng, Append(stats, "bootstrap"))
        ELSE latex(<<>>, NoRng, stats)

(***************************************************************************)
(* Inputs of the statistics calls                                          *)
(***************************************************************************)
MaxN == 3             \* longest sample
MaxResamples == 3     \* largest n_bootstrap
MaxDraws == 2         \* draws from the global generators in one run

Values == {1, 2}
Samples == UNION { [1..k -> Values] : k \in 0..MaxN }

Column(x) == [i \in DOMAIN x |-> <<x[i]>>]     \* an (n, 1) array

DataInputs ==
    { [type |-> t, dtype |-> "float", ndim |-> 1, values |-> x] :
          t \in {"list", "Series", "ndarray", "tuple"}, x \in Samples } \cup
    { [type |-> "ndarray", dtype |-> "float", ndim |-> 2, values |-> Column(x)] :
          x \in Samples } \cup
    { [type |-> "list", dtype |-> "str", ndim |-> 1, values |-> x] :
          x \in Samples }

NBootstraps == (MaxResamples - 1)..MaxResamples
CIs == {90, 95}             \* bootstrap_mean's ci, a percentage
CILevels == {900, 950}      \* pretty_print_desc_stats' ci_level, in permille
Seeds == {7, 42}
NDigits == {1, 2}

EstimateArgs ==
    [data : DataInputs, n_bootstrap : NBootstraps, ci : CIs, seed : Seeds]

SummarizeArgs ==
    [data : Samples, n_bootstrap : NBootstraps, ci : BOOLEAN,
     ci_level : CILevels, n_digits : NDigits, seed : Seeds]

(***************************************************************************)
(* Statistics calls as actions                                             *)
(***************************************************************************)
NoOut == [op |-> "none", kind |-> "none"]
NoEst == [set |-> FALSE]

Pending(op, a) == [op |-> op, args |-> a, kind |-> "pending"]

Calls == { Pending("bootstrap_mean", a) : a \in EstimateArgs } \cup
         { Pending("pretty_print_desc_stats", a) : a \in SummarizeArgs }

\* a generator the call used is left in the state the call's draws put it in
AfterCall(r) == IF r.rng.id = "global" THEN r.rng.state ELSE np_global

Outcome(op, a, r) ==
    [op |-> op, args |-> a, kind |-> r.kind, error |-> r.error,
     computed |-> r.computed, value |-> r.value]

Estimate ==
    /\ out.kind = "pending"
    /\ out.op = "bootstrap_mean"
    /\ LET a == out.args
           r == bootstrap_mean(a.data, a.n_bootstrap, a.ci, a.seed, np_global)
       IN  /\ out' = Outcome("bootstrap_mean", a, r)
           /\ np_global' = AfterCall(r)
    /\ UNCHANGED <<py_global, est, est2, ndraws>>
    /\ UNCHANGED loadVars

Summarize ==
    /\ out.kind = "pending"
    /\ out.op = "pretty_print_desc_stats"
    /\ LET a == out.args
           r == pretty_print_desc_stats(a.data, a.n_bootstrap, a.ci,
                                        a.ci_level, a.n_digits, a.seed,
                                        np_global)
       IN  /\ out' = Outcome("pretty_print_desc_stats", a, r)
           /\ np_global' = AfterCall(r)
    /\ UNCHANGED <<py_global, est, est2, ndraws>>
    /\ UNCHANGED loadVars

\* the first of two bootstrap_mean calls with the same arguments
EstimateFirst ==
    /\ ~est.set
    /\ out.op = "none"
    /\ LET a == est.args
           r == bootstrap_mean(a.data, a.n_bootstrap, a.ci, a.seed, np_global)
       IN  /\ est' = [set |-> TRUE, args |-> a, kind |-> r.kind,
                      value |-> r.value, np_at |-> np_global]
           /\ np_global' = AfterCall(r)
    /\ UNCHANGED <<py_global, out, est2, ndraws>>
    /\ UNCHANGED loadVars

\* the second one
EstimateAgain ==
    /\ est.set
    /\ ~est2.set
    /\ LET a == est.args
           r == bootstrap_mean(a.data, a.n_bootstrap, a.ci, a.seed, np_global)
       IN  /\ est2' = [set |-> TRUE, args |-> a, kind |-> r.kind,
                       value |-> r.value, np_at |-> np_global]
           /\ np_global' = AfterCall(r)
    /\ UNCHANGED <<py_global, out, est, ndraws>>
    /\ UNCHANGED loadVars

\* some other code draws from np.random
DrawNp ==
    /\ ndraws < MaxDraws
    /\ np_global' = LcgNext(np_global)
    /\ ndraws' = ndraws + 1
    /\ UNCHANGED <<py_global, out, est, est2>>
    /\ UNCHANGED loadVars

\* some other code draws from random
DrawPy ==
    /\ ndraws < MaxDraws
    /\ py_global' = LcgNext(py_global)
    /\ ndraws' = ndraws + 1
    /\ UNCHANGED <<np_global, out, est, est2>>
    /\ UNCHANGED loadVars

(***************************************************************************)
(* Specifications                                                          *)
(***************************************************************************)
\* read_csv_robust(file_path) has been called on some file; no statistics call
InitLoad ==
    /\ pc = "detect"
    /\ file \in Files
    /\ encoding_detected = None
    /\ attempts = <<>>
    /\ printed = <<>>
    /\ loaded = NotLoaded
    /\ np_global = SeedState(ImportSeed)
    /\ py_global = SeedState(ImportSeed)
    /\ ndraws = 0
    /\ out = NoOut
    /\ est = NoEst
    /\ est2 = NoEst

SpecLoad == InitLoad /\ [][NextLoad]_vars

\* the module has been imported (random.seed(42), np.random.seed(42)) and
\* one statistics call is about to be made, with any arguments
InitStats ==
    /\ np_global = SeedState(ImportSeed)
    /\ py_global = SeedState(ImportSeed)
    /\ ndraws = 0
    /\ out \in Calls
    /\ est = NoEst
    /\ est2 = NoEst
    /\ pc = "idle"
    /\ file = NoFile
    /\ encoding_detected = None
    /\ attempts = <<>>
    /\ printed = <<>>
    /\ loaded = NotLoaded

NextStats == Estimate \/ Summarize
SpecStats == InitStats /\ [][NextStats]_vars

\* the module has been imported and bootstrap_mean is about to be called,
\* and later called again, with any arguments; in between, other code draws
\* from the global generators
InitShared ==
    /\ np_global = SeedState(ImportSeed)
    /\ py_global = SeedState(ImportSeed)
    /\ ndraws = 0
    /\ out = NoOut
    /\ est \in { [set |-> FALSE, args |-> a] : a \in EstimateArgs }
    /\ est2 = NoEst
    /\ pc = "idle"
    /\ file = NoFile
    /\ encoding_detected = None
    /\ attempts = <<>>
    /\ printed = <<>>
    /\ loaded = NotLoaded

NextShared == EstimateFirst \/ EstimateAgain \/ DrawNp \/ DrawPy
SpecShared == InitShared /\ [][NextShared]_vars

(***************************************************************************)
(* Properties of read_csv_robust (SpecLoad)                                *)
(***************************************************************************)
Ended == pc \in {"returned", "raised"}
LastAttempt == attempts[Len(attempts)]

FollowsOrder(order) ==
    /\ Len(attempts) <= 3
    /\ \A k \in DOMAIN attempts :
          /\ attempts[k].encoding = order[k]
          /\ k > 1 => ~attempts[k - 1].ok

\* C1 (as stated): the attempts are made with the detected encoding, then
\* ISO-8859-1, then UTF-8, each one only after the one before it raised.
C1_OrderAsStated == FollowsOrder(<<encoding_detected, "ISO-8859-1", "utf-8">>)

\* C1 (amended): the attempts are made with the detected encoding, then
\* UTF-8, then ISO-8859-1, each one only after the one before it raised.
C1_FallbackOrder == FollowsOrder(<<encoding_detected, "utf-8", "ISO-8859-1">>)

C1_Witness == Ended /\ Len(attempts) = 3

\* C2: read_csv_robust raises only after exactly three failed attempts, an
\* error of the detection step included, and it returns the table of the
\* first attempt that succeeds without making another one.
C2_FailsOnlyAfterThree ==
    /\ pc = "raised" =>
          /\ Len(attempts) = 3
          /\ \A k \in DOMAIN attempts : ~attempts[k].ok
    /\ pc = "returned" =>
          /\ attempts # <<>>
          /\ LastAttempt.ok
          /\ loaded.df = read_csv(file, LastAttempt.encoding).df
          /\ \A k \in 1..(Len(attempts) - 1) : ~attempts[k].ok

\* everything an exception carries: its message and, through __context__,
\* the messages of the exceptions it was raised while handling
Carried(error) ==
    Range(error.msg) \cup
    UNION { Range(error.context[i].msg) : i \in DOMAIN error.context }

\* C3: when all three attempts failed, the error raised carries the file
\* path and the messages of the three failed attempts.
C3_ErrorCarriesPathAndCauses ==
    (pc = "raised" /\ Len(attempts) = 3) =>
        /\ file_path \in Carried(loaded.error)
        /\ \A k \in 1..3 : Range(attempts[k].error.msg) \subseteq Carried(loaded.error)

\* the bytes decode in one of the three candidate encodings, and there is a
\* header line to parse
ValidSomewhere ==
    /\ file.exists
    /\ file.rows # <<>>
    /\ \E c \in {CodecOf(encoding_detected), "utf-8", "ISO-8859-1"} :
          Decodable(c, file.rows)

\* the detector gave no name, or a name the file does not decode in
BadGuess ==
    \/ encoding_detected = None
    \/ ~Decodable(CodecOf(encoding_detected), file.rows)

WellFormedRows(codec) ==
    LET text == [i \in DOMAIN file.rows |-> DecodeLine(codec, file.rows[i])] IN
    SelectSeq(Tail(text), LAMBDA l : Len(l) = Len(Head(text)))

\* C9: the table returned holds exactly the well-formed data lines, in file
\* order; a line with another number of fields is skipped.
C9_OnlyWellFormedRows ==
    pc = "returned" =>
        loaded.df.rows = WellFormedRows(CodecOf(LastAttempt.encoding))

(***************************************************************************)
(* Properties of the statistics calls (SpecStats)                          *)
(***************************************************************************)
Done == out.kind \in {"returned", "raised"}
IsEstimate == Done /\ out.op = "bootstrap_mean"
IsSummarize == Done /\ out.op = "pretty_print_desc_stats"

SampleSize == IF out.op = "bootstrap_mean" THEN size(out.args.data)
              ELSE Len(out.args.data)

\* raised by the input checks, before anything is computed
InvalidInputError ==
    /\ out.kind = "raised"
    /\ out.error.type = "ValueError"
    /\ out.computed = <<>>

\* C4: for an empty sample both bootstrap_mean and pretty_print_desc_stats
\* raise the invalid-input error before computing anything, and return nothing.
C4_EmptyRejected == (Done /\ SampleSize = 0) => InvalidInputError

\* C6: pretty_print_desc_stats of a one-element sample raises the
\* invalid-input error instead of returning a string.
C6_SingleElementRejected ==
    (IsSummarize /\ SampleSize = 1) =>
        (out.kind = "raised" /\ out.error.type = "ValueError")

AsList(x) == [type |-> "list", dtype |-> "float", ndim |-> 1, values |-> x]

\* C7: with ci, the interval in the string is the one bootstrap_mean returns
\* for the same sample, resamples, level and seed; without ci nothing is
\* resampled and the string has no interval.
C7_SameIntervalAsEstimator ==
    (IsSummarize /\ out.kind = "returned") =>
        LET a == out.args
            e == bootstrap_mean(AsList(a.data), a.n_bootstrap,
                                a.ci_level \div 10, a.seed, np_global)
        IN  IF a.ci
            THEN /\ e.kind = "returned"
                 /\ out.value.ci_str =
                        <<a.ci_level \div 10, Fmt(e.value.lower, a.n_digits),
                          Fmt(e.value.upper, a.n_digits)>>
            ELSE /\ out.value.ci_str = <<>>
                 /\ "bootstrap" \notin Range(out.computed)

\* a non-empty sample of numbers in a supported container
ValidSample(data) ==
    /\ data.type \in {"Series", "list", "ndarray"}
    /\ data.dtype = "float"
    /\ size(data) > 0

\* C10: bootstrap_mean returns a result for every valid sample and raises
\* the invalid-input error, at the input checks, for every other input.
C10_TwoOutcomes ==
    IsEstimate =>
        IF ValidSample(out.args.data)
        THEN out.kind = "returned"
        ELSE InvalidInputError

(***************************************************************************)
(* Properties of the random streams (SpecShared)                           *)
(***************************************************************************)
\* C5: two bootstrap_mean calls with the same arguments end the same way
\* with the same (mean, lower, upper), whatever was drawn from the global
\* generators before or between them, and a bootstrap_mean call leaves both
\* global generators in the state it found them.
C5_IsolatedStream ==
    /\ [](est.set /\ est2.set =>
            est2.kind = est.kind /\ est2.value = est.value)
    /\ [][(est' # est \/ est2' # est2) =>
            (np_global' = np_global /\ py_global' = py_global)]_vars

\* both calls returned, and the global numpy generator was in different
\* states when they were made
C5_Witness ==
    /\ est.set /\ est2.set
    /\ est.kind = "returned" /\ est2.kind = "returned"
    /\ est.np_at # est2.np_at
    /\ est.value.lower < est.value.upper

====
